---- MODULE Spec2Model ----
(***************************************************************************)
(* A model of src/main.cpp: the bring-up diagnostic's heap prober          *)
(* (mallocLargestSize, checkHeapSize), its RAM verifier (checkRam) and     *)
(* main's control path.                                                    *)
(*                                                                         *)
(* Representation.  The target is a 32-bit Cortex-M, so size_t, uint32_t   *)
(* and pointers are 32 bits wide.  A 32-bit memory word is modelled as the *)
(* set of the positions of its 1 bits (a subset of 0..31): the encoding is *)
(* one to one, and it makes the shift, the complement and the int32_t cast *)
(* computable within the 32-bit integers of TLC.                             *)
(* Heap addresses are block numbers 1, 2, ... in the order malloc granted  *)
(* them; NULL is 0.                                                        *)
(***************************************************************************)
EXTENDS Integers, Sequences, FiniteSets, TLC

\* ----------------------------------------------------------------
\* Program constants
\* ----------------------------------------------------------------

SYSTEM_RAM_SIZE_BYTES == 20480

\* sizeof (uint32_t), sizeof (void **) and sizeof (*pMem) on the 32-bit target
WordBytes == 4

\* the width of uint32_t
WordBits == 32

NULL == 0

\* ----------------------------------------------------------------
\* Bounds of the model
\* ----------------------------------------------------------------

\* The largest request (bytes) the modelled heap is able to grant in one piece
MaxGrant == 12

\* The number of blocks the modelled heap is able to hold at once
MaxBlocks == 3

\* checkHeapSize is entered with SYSTEM_RAM_SIZE_BYTES and with every cap up to this
MaxCap == 9

\* mallocLargestSize is entered with every target up to this
MaxTarget == 40

\* checkRam is entered with every size (bytes) up to this
MaxRamBytes == 133

\* ----------------------------------------------------------------
\* 32-bit words
\* ----------------------------------------------------------------

BitPositions == 0 .. (WordBits - 1)

Word == SUBSET BitPositions

Zero == {}

AllOnes == BitPositions

\* the uint32_t whose value is n, for 0 <= n < 2^31
ToWord(n) == {b \in BitPositions : b < WordBits - 1 /\ (n \div (2 ^ b)) % 2 = 1}

RECURSIVE SumBits(_)
SumBits(w) ==
    IF w = {} THEN 0
    ELSE LET b == CHOOSE x \in w : TRUE IN (2 ^ b) + SumBits(w \ {b})

\* the value of a word whose top bit is clear
Val(w) == SumBits(w)

\* (int32_t) w: two's complement, the top bit weighs -2^31
ToInt32(w) ==
    IF (WordBits - 1) \in w
    THEN (SumBits(w \ {WordBits - 1}) - (2 ^ (WordBits - 2))) - (2 ^ (WordBits - 2))
    ELSE SumBits(w)

\* ~value
Invert(value) == BitPositions \ value

\* value <<= 1: the top bit is shifted out
ShiftLeft(value) == {b + 1 : b \in {x \in value : x + 1 < WordBits}}

\* NextValue without the reset of a pattern that was shifted out
NextValueNoWrap(value) == ShiftLeft(value)

\* value <<= 1; if (value == 0) value = 1;
NextValue(value) ==
    LET shifted == ShiftLeft(value)
    IN IF shifted = Zero THEN ToWord(1) ELSE shifted

\* ----------------------------------------------------------------
\* Memory cells and their faults
\* ----------------------------------------------------------------

\* the faults of a range are a set of faulty cells, at most one per word
NoFault == {}

\* one bit of one word permanently reads as `stuck`
StuckBit(word, bit, stuck) == {[kind |-> "bit", word |-> word, bit |-> bit, stuck |-> stuck]}

\* a whole word permanently reads as 0x00000000
StuckZero(word) == {[kind |-> "zero", word |-> word, bit |-> 0, stuck |-> 0]}

\* *(p + i) as a read: the cell's stored word, seen through the faults of word i
Load(m, f, i) ==
    LET here == {x \in f : x.word = i}
    IN  IF \E x \in here : x.kind = "zero" THEN Zero
        ELSE (m[i] \cup {x.bit : x \in {y \in here : y.stuck = 1}})
                 \ {x.bit : x \in {y \in here : y.stuck = 0}}

\* memorySizeBytes / sizeof (*pLocation)
WordsIn(memorySizeBytes) == memorySizeBytes \div WordBytes

\* ----------------------------------------------------------------
\* State
\* ----------------------------------------------------------------

VARIABLES
    pc,        \* the position of the single thread of control
    mls,       \* mallocLargestSize's frame: *pSizeBytes, memorySizeBytes, pMem
    chs,       \* checkHeapSize's frame
    ram,       \* checkRam's frame: pMem, memorySizeBytes, pLocation (a word index)
    mem,       \* memory: the words of each block, by the block's start address
    faults,    \* the fault of each block's memory
    blocks,    \* the heap: the size of every block malloc granted, by address
    live,      \* the heap: the addresses granted and not yet freed
    frees,     \* every call of free so far, in order
    out,       \* the diagnostic lines printed so far
    gGpio,     \* the LED output
    echoed     \* the last character echoed on the serial port

vars == <<pc, mls, chs, ram, mem, faults, blocks, live, frees, out, gGpio, echoed>>

\* ----------------------------------------------------------------
\* checkRam (src/main.cpp 189-252)
\* ----------------------------------------------------------------

\* the walking-1 write loop (200-208) and the inverted one (225-233), from word i on
RECURSIVE WriteLoop(_, _, _, _, _)
WriteLoop(m, i, n, value, inverted) ==
    IF i < n
    THEN WriteLoop([m EXCEPT ![i] = IF inverted THEN Invert(value) ELSE value],
                   i + 1, n, NextValue(value), inverted)
    ELSE m

\* the walking-1 "read" loop (212-219): the cursor where it ends
RECURSIVE WalkingReadLoop(_, _, _)
WalkingReadLoop(i, n, value) ==
    IF i < n THEN WalkingReadLoop(i + 1, n, NextValue(value)) ELSE i

\* the condition of the inverted read loop (237)
InvertedReadGuard(m, f, i, n, value) == i < n /\ Load(m, f, i) = Invert(value)

\* InvertedReadLoop reading the whole range: the cursor of the last word that
\* does not compare, n when all compare
RECURSIVE InvertedReadLoopToEnd(_, _, _, _, _)
InvertedReadLoopToEnd(m, f, i, n, value) ==
    IF i >= n THEN n
    ELSE LET later == InvertedReadLoopToEnd(m, f, i + 1, n, NextValue(value))
         IN  IF later < n THEN later
             ELSE IF Load(m, f, i) = Invert(value) THEN n ELSE i

\* the inverted read loop (237-244): the cursor where it ends
RECURSIVE InvertedReadLoop(_, _, _, _, _)
InvertedReadLoop(m, f, i, n, value) ==
    IF InvertedReadGuard(m, f, i, n, value)
    THEN InvertedReadLoop(m, f, i + 1, n, NextValue(value))
    ELSE i

\* RamStartValid without the null check
RamStartUnchecked(pMem) == TRUE

\* if (pMem != NULL)
RamStartValid(pMem) == pMem # NULL

\* if (pMem != NULL) { printf("*** Checking RAM, ..."); ... }
CheckRamEnter ==
    /\ pc = "checkRam"
    /\ IF RamStartValid(ram.pMem)
       THEN /\ out' = Append(out, <<"checking", ram.pMem,
                                   ram.pMem + WordsIn(ram.memorySizeBytes)>>)
            /\ pc' = "cr_write"
       ELSE /\ out' = out
            /\ pc' = ram.ret
    /\ UNCHANGED <<mls, chs, ram, mem, faults, blocks, live, frees, gGpio, echoed>>

\* Write a walking 1 pattern
CheckRamWrite ==
    /\ pc = "cr_write"
    /\ mem' = [mem EXCEPT ![ram.pMem] =
                  WriteLoop(@, 0, WordsIn(ram.memorySizeBytes), ToWord(1), FALSE)]
    /\ ram' = [ram EXCEPT !.pLocation = WordsIn(ram.memorySizeBytes)]
    /\ pc' = "cr_read"
    /\ UNCHANGED <<mls, chs, faults, blocks, live, frees, out, gGpio, echoed>>

\* Read the walking 1 pattern: nothing is compared
CheckRamRead ==
    /\ pc = "cr_read"
    /\ LET end == WalkingReadLoop(0, WordsIn(ram.memorySizeBytes), ToWord(1))
       IN /\ ram' = [ram EXCEPT !.pLocation = end]
          /\ pc' = IF end >= WordsIn(ram.memorySizeBytes)
                   THEN "cr_invwrite" ELSE "cr_report"
    /\ UNCHANGED <<mls, chs, mem, faults, blocks, live, frees, out, gGpio, echoed>>

\* Write an inverted walking 1 pattern
CheckRamInvertedWrite ==
    /\ pc = "cr_invwrite"
    /\ mem' = [mem EXCEPT ![ram.pMem] =
                  WriteLoop(@, 0, WordsIn(ram.memorySizeBytes), ToWord(1), TRUE)]
    /\ ram' = [ram EXCEPT !.pLocation = WordsIn(ram.memorySizeBytes)]
    /\ pc' = "cr_invread"
    /\ UNCHANGED <<mls, chs, faults, blocks, live, frees, out, gGpio, echoed>>

\* Read the inverted walking 1 pattern, stopping at the first mismatch
CheckRamInvertedRead ==
    /\ pc = "cr_invread"
    /\ ram' = [ram EXCEPT !.pLocation =
                  InvertedReadLoop(mem[ram.pMem], faults[ram.pMem], 0,
                                   WordsIn(ram.memorySizeBytes), ToWord(1))]
    /\ pc' = "cr_report"
    /\ UNCHANGED <<mls, chs, mem, faults, blocks, live, frees, out, gGpio, echoed>>

\* if (pLocation < pMem + memorySizeBytes / sizeof (*pLocation)) printf("!!! RAM check failure ...")
CheckRamReport ==
    /\ pc = "cr_report"
    /\ out' = IF ram.pLocation < WordsIn(ram.memorySizeBytes)
              THEN Append(out, <<"failure", ram.pMem + WordBytes * ram.pLocation,
                                 Load(mem[ram.pMem], faults[ram.pMem], ram.pLocation)>>)
              ELSE out
    /\ pc' = ram.ret
    /\ UNCHANGED <<mls, chs, ram, mem, faults, blocks, live, frees, gGpio, echoed>>

CheckRamStep ==
    \/ CheckRamEnter
    \/ CheckRamWrite
    \/ CheckRamRead
    \/ CheckRamInvertedWrite
    \/ CheckRamInvertedRead
    \/ CheckRamReport

\* a frame of checkRam(pMem, memorySizeBytes), returning to ret
RamFrame(pMem, memorySizeBytes, ret) ==
    [pMem |-> pMem, memorySizeBytes |-> memorySizeBytes, pLocation |-> 0, ret |-> ret]

NoMls == [pSizeBytes |-> Zero, memorySizeBytes |-> 0, pMem |-> NULL,
          target |-> Zero, nTries |-> 0, lastTried |-> 0, ret |-> "returned"]

NoChs == [sizeBytes |-> Zero, totalHeapSizeBytes |-> 0, pFirstMalloc |-> NULL,
          firstMallocSizeBytes |-> Zero, ppLaterMalloc |-> 0,
          laterMallocSizeBytes |-> Zero, exit |-> "none", result |-> 0,
          ret |-> "returned"]

\* the bits of a word in which the model places a single stuck bit
FaultBits == {0, 1, 2, WordBits - 1}

\* the faults of a range of n words: none, one stuck bit, one word stuck at zero
RangeFaults(n) ==
    {NoFault}
    \cup {StuckBit(w, b, s) : w \in 0 .. (n - 1), b \in FaultBits, s \in {0, 1}}
    \cup {StuckZero(w) : w \in 0 .. (n - 1)}

\* the pairs of words of a range of n words, lower word first
WordPairs(n) == {pr \in (0 .. (n - 1)) \X (0 .. (n - 1)) : pr[1] < pr[2]}

\* two faulty words in one range: both stuck at zero, or a stuck bit 0 in the
\* lower word (which the test sees or not, by the word's offset) and the
\* higher word stuck at zero
PairFaults(n) ==
    {StuckZero(pr[1]) \cup StuckZero(pr[2]) : pr \in WordPairs(n)}
    \cup {StuckBit(pr[1], 0, s) \cup StuckZero(pr[2]) : pr \in WordPairs(n), s \in {0, 1}}

\* the faults checkRam is run on: every single fault on every size, and every
\* pair of faulty words on the sizes that are whole words
FaultsOf(size) ==
    RangeFaults(WordsIn(size))
    \cup (IF size % WordBytes = 0 THEN PairFaults(WordsIn(size)) ELSE {})

\* where checkRam is called on: NULL and a word-aligned address
StartAddresses == {NULL, 2 ^ 28}

\* checkRam called on its own, on every start, size, fault and previous content
RamInit ==
    /\ pc = "checkRam"
    /\ \E p \in StartAddresses, size \in 0 .. MaxRamBytes :
         /\ ram = RamFrame(p, size, "returned")
         /\ \E before \in {Zero, AllOnes} :
              mem = [a \in {p} |-> [i \in 0 .. (WordsIn(size) - 1) |-> before]]
         /\ \E f \in FaultsOf(size) : faults = [a \in {p} |-> f]
    /\ mls = NoMls
    /\ chs = NoChs
    /\ blocks = << >>
    /\ live = {}
    /\ frees = << >>
    /\ out = << >>
    /\ gGpio = FALSE
    /\ echoed = ""

RamNext == CheckRamStep

RamSpec == RamInit /\ [][RamNext]_vars

\* ----------------------------------------------------------------
\* malloc and free (the C library, as main.cpp uses it)
\* ----------------------------------------------------------------

\* a value that is the address of no block: at most MaxBlocks blocks are granted
WildPointer == MaxBlocks + 1

\* the pointer a memory word holds
PtrOf(w) == IF (WordBits - 1) \in w THEN WildPointer ELSE Val(w)

\* malloc may grant a request the heap has room for, and may refuse any request
Grantable(size) == size <= MaxGrant /\ Len(blocks) < MaxBlocks

\* the faults of a granted block of n words: none, or one word stuck at zero
BlockFaults(n) == {NoFault} \cup {StuckZero(w) : w \in 0 .. (n - 1)}

\* everything a read outside a live block may return: NULL, the address of a
\* block granted in this run (live or freed), or the address of no block
Garbage == {NULL} \cup (1 .. Len(blocks)) \cup {WildPointer}

\* the same, as memory words
GarbageWords == {ToWord(p) : p \in Garbage}

\* *(a + i) as a read of memory m: the cell's word inside a live block, anything
\* outside one (past the block's last whole word, or after the block was freed)
ReadWord(m, a, i) ==
    IF a \in live /\ i \in DOMAIN m[a]
    THEN {Load(m[a], faults[a], i)}
    ELSE GarbageWords

\* free(p), read from slot `slot` of the first block (-1: from pFirstMalloc itself).
\* free(NULL) does nothing; free of a live block releases it; free of anything
\* else is undefined: the heap is corrupted and the program carries on, or faults.
Free(p, slot, inBlock, nextPc) ==
    /\ frees' = Append(frees, [ptr |-> p, slot |-> slot, inBlock |-> inBlock,
                               wasLive |-> p \in live])
    /\ live' = live \ {p}
    /\ IF p = NULL \/ p \in live
       THEN pc' = nextPc
       ELSE pc' \in {nextPc, "fault"}

\* ----------------------------------------------------------------
\* mallocLargestSize (src/main.cpp 103-130)
\* ----------------------------------------------------------------

\* a frame of mallocLargestSize(&size), where size holds the word `size`
MlsFrame(size, ret) ==
    [pSizeBytes |-> size, memorySizeBytes |-> 0, pMem |-> NULL,
     target |-> size, nTries |-> 0, lastTried |-> 0, ret |-> ret]

\* while ((pMem == NULL) && (memorySizeBytes > 0))
ProbeContinues(pMem, memorySizeBytes) == pMem = NULL /\ memorySizeBytes > 0

\* NextRequest stepping by one byte
NextRequestByOne(memorySizeBytes) == memorySizeBytes - 1

\* memorySizeBytes -= sizeof(uint32_t);
NextRequest(memorySizeBytes) == memorySizeBytes - WordBytes

\* if (memorySizeBytes < 0) memorySizeBytes = 0;
ClampSize(memorySizeBytes) == IF memorySizeBytes < 0 THEN 0 ELSE memorySizeBytes

\* memorySizeBytes = (int32_t) *pSizeBytes;  (pSizeBytes itself is never NULL: both
\* calls pass the address of a local)
MallocLargestEnter ==
    /\ pc = "mallocLargestSize"
    /\ mls' = [mls EXCEPT !.memorySizeBytes = ToInt32(mls.pSizeBytes)]
    /\ pc' = "mls_loop"
    /\ UNCHANGED <<chs, ram, mem, faults, blocks, live, frees, out, gGpio, echoed>>

\* pMem = malloc(memorySizeBytes), granted
MallocGranted ==
    /\ pc = "mls_loop"
    /\ ProbeContinues(mls.pMem, mls.memorySizeBytes)
    /\ Grantable(mls.memorySizeBytes)
    /\ LET a == Len(blocks) + 1
           n == WordsIn(mls.memorySizeBytes)
       IN /\ blocks' = Append(blocks, mls.memorySizeBytes)
          /\ live' = live \cup {a}
          /\ mem' = [x \in DOMAIN mem \cup {a} |->
                        IF x = a THEN [i \in 0 .. (n - 1) |-> Zero] ELSE mem[x]]
          /\ \E f \in BlockFaults(n) :
               faults' = [x \in DOMAIN faults \cup {a} |->
                             IF x = a THEN f ELSE faults[x]]
          /\ mls' = [mls EXCEPT !.pMem = a,
                                !.nTries = @ + 1,
                                !.lastTried = mls.memorySizeBytes]
    /\ UNCHANGED <<pc, chs, ram, frees, out, gGpio, echoed>>

\* pMem = malloc(memorySizeBytes), refused: memorySizeBytes -= sizeof(uint32_t)
MallocRefused ==
    /\ pc = "mls_loop"
    /\ ProbeContinues(mls.pMem, mls.memorySizeBytes)
    /\ mls' = [mls EXCEPT !.memorySizeBytes = NextRequest(@),
                          !.nTries = @ + 1,
                          !.lastTried = mls.memorySizeBytes]
    /\ UNCHANGED <<pc, chs, ram, mem, faults, blocks, live, frees, out, gGpio, echoed>>

\* the loop has ended: clamp, *pSizeBytes = memorySizeBytes, return pMem
MallocLargestReturn ==
    /\ pc = "mls_loop"
    /\ ~ProbeContinues(mls.pMem, mls.memorySizeBytes)
    /\ mls' = [mls EXCEPT !.memorySizeBytes = ClampSize(@),
                          !.pSizeBytes = ToWord(ClampSize(mls.memorySizeBytes))]
    /\ pc' = mls.ret
    /\ UNCHANGED <<chs, ram, mem, faults, blocks, live, frees, out, gGpio, echoed>>

MallocLargestStep ==
    \/ MallocLargestEnter
    \/ MallocGranted
    \/ MallocRefused
    \/ MallocLargestReturn

\* the size_t values at or above 2^31 the model enters with
HugeSizes == {{WordBits - 1}, {WordBits - 1, 2}, AllOnes}

\* mallocLargestSize called on its own, with every target
ProbeInit ==
    /\ pc = "mallocLargestSize"
    /\ \E size \in {ToWord(n) : n \in 0 .. MaxTarget} \cup HugeSizes :
         mls = MlsFrame(size, "returned")
    /\ chs = NoChs
    /\ ram = RamFrame(NULL, 0, "returned")
    /\ mem = << >>
    /\ faults = << >>
    /\ blocks = << >>
    /\ live = {}
    /\ frees = << >>
    /\ out = << >>
    /\ gGpio = FALSE
    /\ echoed = ""

ProbeNext == MallocLargestStep

ProbeSpec == ProbeInit /\ [][ProbeNext]_vars

\* ----------------------------------------------------------------
\* checkHeapSize (src/main.cpp 134-185)
\* ----------------------------------------------------------------

\* a frame of checkHeapSize(sizeBytes)
ChsFrame(sizeBytes, ret) == [NoChs EXCEPT !.sizeBytes = sizeBytes, !.ret = ret]

\* firstMallocSizeBytes / sizeof (void **): the slots of the first block
SlotBound(firstMallocSizeBytes) == Val(firstMallocSizeBytes) \div WordBytes

\* CursorInBlock with the bound included
CursorInBlockInclusive(ppLaterMalloc, firstMallocSizeBytes) ==
    ppLaterMalloc <= SlotBound(firstMallocSizeBytes)

\* ppLaterMalloc < (void **) pFirstMalloc + (firstMallocSizeBytes / sizeof (void **))
CursorInBlock(ppLaterMalloc, firstMallocSizeBytes) ==
    ppLaterMalloc < SlotBound(firstMallocSizeBytes)

\* the condition of the chaining loop (159), evaluated left to right, where
\* slotWord is what *ppLaterMalloc reads (it is read only past the first conjunct)
ChainGuard(slotWord) ==
    /\ CursorInBlock(chs.ppLaterMalloc, chs.firstMallocSizeBytes)
    /\ slotWord # ToWord(NULL)
    /\ chs.laterMallocSizeBytes # ToWord(0)

\* AddBlock counting words instead of bytes
AddBlockInWords(totalHeapSizeBytes, sizeBytes) ==
    totalHeapSizeBytes + (Val(sizeBytes) \div WordBytes)

\* totalHeapSizeBytes += (a block's size)
AddBlock(totalHeapSizeBytes, sizeBytes) == totalHeapSizeBytes + Val(sizeBytes)

\* while (ppLaterMalloc >= pFirstMalloc), ppLaterMalloc as a slot index
TeardownGuard(ppLaterMalloc) == ppLaterMalloc >= 0

\* the values free(*ppLaterMalloc) may be handed in the teardown loop (177)
SlotValues == {PtrOf(w) : w \in ReadWord(mem, chs.pFirstMalloc, chs.ppLaterMalloc)}

\* the locals' initial values, and pFirstMalloc = mallocLargestSize(&firstMallocSizeBytes)
CheckHeapEnter ==
    /\ pc = "checkHeapSize"
    /\ chs' = [chs EXCEPT !.totalHeapSizeBytes = 0,
                          !.pFirstMalloc = NULL,
                          !.firstMallocSizeBytes = chs.sizeBytes,
                          !.ppLaterMalloc = 0,
                          !.laterMallocSizeBytes = chs.sizeBytes]
    /\ mls' = MlsFrame(chs.sizeBytes, "chs_first")
    /\ pc' = "mallocLargestSize"
    /\ UNCHANGED <<ram, mem, faults, blocks, live, frees, out, gGpio, echoed>>

\* if (pFirstMalloc != NULL) checkRam((uint32_t *) pFirstMalloc, firstMallocSizeBytes);
CheckHeapFirst ==
    /\ pc = "chs_first"
    /\ chs' = [chs EXCEPT !.pFirstMalloc = mls.pMem,
                          !.firstMallocSizeBytes = mls.pSizeBytes]
    /\ IF mls.pMem # NULL
       THEN /\ ram' = RamFrame(mls.pMem, Val(mls.pSizeBytes), "chs_chain")
            /\ pc' = "checkRam"
       ELSE /\ ram' = ram
            /\ pc' = "chs_return"
    /\ UNCHANGED <<mls, mem, faults, blocks, live, frees, out, gGpio, echoed>>

\* totalHeapSizeBytes += firstMallocSizeBytes; ppLaterMalloc = (void **) pFirstMalloc;
\* laterMallocSizeBytes = SYSTEM_RAM_SIZE_BYTES;
CheckHeapChain ==
    /\ pc = "chs_chain"
    /\ chs' = [chs EXCEPT !.totalHeapSizeBytes = AddBlock(@, chs.firstMallocSizeBytes),
                          !.ppLaterMalloc = 0,
                          !.laterMallocSizeBytes = ToWord(SYSTEM_RAM_SIZE_BYTES)]
    /\ pc' = "chs_loop"
    /\ UNCHANGED <<mls, ram, mem, faults, blocks, live, frees, out, gGpio, echoed>>

\* the chaining loop's condition holds: mallocLargestSize(&laterMallocSizeBytes)
CheckHeapLoop ==
    /\ pc = "chs_loop"
    /\ \E w \in ReadWord(mem, chs.pFirstMalloc, chs.ppLaterMalloc) : ChainGuard(w)
    /\ mls' = MlsFrame(chs.laterMallocSizeBytes, "chs_later")
    /\ pc' = "mallocLargestSize"
    /\ UNCHANGED <<chs, ram, mem, faults, blocks, live, frees, out, gGpio, echoed>>

\* the chaining loop's condition fails: on to the teardown
CheckHeapLoopExit ==
    /\ pc = "chs_loop"
    /\ \E w \in ReadWord(mem, chs.pFirstMalloc, chs.ppLaterMalloc) : ~ChainGuard(w)
    /\ pc' = "chs_teardown"
    /\ UNCHANGED <<mls, chs, ram, mem, faults, blocks, live, frees, out, gGpio, echoed>>

\* *ppLaterMalloc = (the block returned); if (*ppLaterMalloc != NULL) checkRam(...)
CheckHeapLater ==
    /\ pc = "chs_later"
    /\ mem' = [mem EXCEPT ![chs.pFirstMalloc][chs.ppLaterMalloc] = ToWord(mls.pMem)]
    /\ chs' = [chs EXCEPT !.laterMallocSizeBytes = mls.pSizeBytes]
    /\ \E stored \in ReadWord(mem', chs.pFirstMalloc, chs.ppLaterMalloc) :
          IF stored # ToWord(NULL)
          THEN /\ ram' = RamFrame(PtrOf(stored), Val(mls.pSizeBytes), "chs_next")
               /\ pc' = "checkRam"
          ELSE /\ ram' = ram
               /\ pc' = "chs_loop"
    /\ UNCHANGED <<mls, faults, blocks, live, frees, out, gGpio, echoed>>

\* totalHeapSizeBytes += laterMallocSizeBytes;
\* laterMallocSizeBytes = SYSTEM_RAM_SIZE_BYTES; ppLaterMalloc++;
CheckHeapNext ==
    /\ pc = "chs_next"
    /\ chs' = [chs EXCEPT !.totalHeapSizeBytes = AddBlock(@, chs.laterMallocSizeBytes),
                          !.laterMallocSizeBytes = ToWord(SYSTEM_RAM_SIZE_BYTES),
                          !.ppLaterMalloc = @ + 1]
    /\ pc' = "chs_loop"
    /\ UNCHANGED <<mls, ram, mem, faults, blocks, live, frees, out, gGpio, echoed>>

\* while (ppLaterMalloc >= pFirstMalloc) { free(*ppLaterMalloc); ppLaterMalloc--; }
CheckHeapTeardown ==
    /\ pc = "chs_teardown"
    /\ TeardownGuard(chs.ppLaterMalloc)
    /\ \E p \in SlotValues :
         Free(p, chs.ppLaterMalloc,
              chs.ppLaterMalloc \in DOMAIN mem[chs.pFirstMalloc],
              "chs_teardown")
    /\ chs' = [chs EXCEPT !.ppLaterMalloc = @ - 1]
    /\ UNCHANGED <<mls, ram, mem, faults, blocks, out, gGpio, echoed>>

\* free(pFirstMalloc);
CheckHeapFreeFirst ==
    /\ pc = "chs_teardown"
    /\ ~TeardownGuard(chs.ppLaterMalloc)
    /\ Free(chs.pFirstMalloc, -1, TRUE, "chs_return")
    /\ UNCHANGED <<mls, chs, ram, mem, faults, blocks, out, gGpio, echoed>>

\* return totalHeapSizeBytes;
CheckHeapReturn ==
    /\ pc = "chs_return"
    /\ chs' = [chs EXCEPT !.result = chs.totalHeapSizeBytes]
    /\ pc' = chs.ret
    /\ UNCHANGED <<mls, ram, mem, faults, blocks, live, frees, out, gGpio, echoed>>

CheckHeapStep ==
    \/ CheckHeapEnter
    \/ CheckHeapFirst
    \/ CheckHeapChain
    \/ CheckHeapLoop
    \/ CheckHeapLoopExit
    \/ CheckHeapLater
    \/ CheckHeapNext
    \/ CheckHeapTeardown
    \/ CheckHeapFreeFirst
    \/ CheckHeapReturn

\* ----------------------------------------------------------------
\* main (src/main.cpp 264-298)
\* ----------------------------------------------------------------

\* the characters the serial port receives in the model
Chars == {"a", "b"}

\* gUsb.baud (9600); checkCpu();
MainCheckCpu ==
    /\ pc = "main"
    /\ out' = Append(out, <<"cpu">>)
    /\ pc' = "main_heap"
    /\ UNCHANGED <<mls, chs, ram, mem, faults, blocks, live, frees, gGpio, echoed>>

\* memorySizeBytes = checkHeapSize(SYSTEM_RAM_SIZE_BYTES);
MainCheckHeap ==
    /\ pc = "main_heap"
    /\ out' = Append(out, <<"heap">>)
    /\ chs' = ChsFrame(ToWord(SYSTEM_RAM_SIZE_BYTES), "main_total")
    /\ pc' = "checkHeapSize"
    /\ UNCHANGED <<mls, ram, mem, faults, blocks, live, frees, gGpio, echoed>>

\* printf("*** Total heap available was %d bytes.\n", memorySizeBytes);
\* gFlipper.attach_us(&flip, 100);
MainTotal ==
    /\ pc = "main_total"
    /\ out' = Append(out, <<"total", chs.result>>)
    /\ pc' = "main_wait"
    /\ UNCHANGED <<mls, chs, ram, mem, faults, blocks, live, frees, gGpio, echoed>>

\* flip(), the ticker's callback, during wait(2)
Flip ==
    /\ pc = "main_wait"
    /\ gGpio' = ~gGpio
    /\ UNCHANGED <<pc, mls, chs, ram, mem, faults, blocks, live, frees, out, echoed>>

\* wait(2) is over: gFlipper.detach();
MainDetach ==
    /\ pc = "main_wait"
    /\ out' = Append(out, <<"echoing">>)
    /\ pc' = "main_echo"
    /\ UNCHANGED <<mls, chs, ram, mem, faults, blocks, live, frees, gGpio, echoed>>

\* while (1) { char c = gUsb.getc(); gUsb.putc(c); }
Echo ==
    /\ pc = "main_echo"
    /\ \E c \in Chars : echoed' = c
    /\ UNCHANGED <<pc, mls, chs, ram, mem, faults, blocks, live, frees, out, gGpio>>

MainStep ==
    \/ MainCheckCpu
    \/ MainCheckHeap
    \/ MainTotal
    \/ Flip
    \/ MainDetach
    \/ Echo

\* the program from main, and checkHeapSize called on its own with every cap
Init ==
    /\ \/ pc = "main" /\ chs = NoChs
       \/ /\ pc = "checkHeapSize"
          /\ \E cap \in {ToWord(n) : n \in 0 .. MaxCap} \cup HugeSizes :
               chs = ChsFrame(cap, "returned")
    /\ mls = NoMls
    /\ ram = RamFrame(NULL, 0, "returned")
    /\ mem = << >>
    /\ faults = << >>
    /\ blocks = << >>
    /\ live = {}
    /\ frees = << >>
    /\ out = << >>
    /\ gGpio = FALSE
    /\ echoed = ""

Next ==
    \/ MainStep
    \/ CheckHeapStep
    \/ MallocLargestStep
    \/ CheckRamStep

Spec == Init /\ [][Next]_vars

\* ----------------------------------------------------------------
\* Properties
\* ----------------------------------------------------------------

RECURSIVE SumSeq(_)
SumSeq(q) == IF q = << >> THEN 0 ELSE Head(q) + SumSeq(Tail(q))

\* the target fits int32_t as a non-negative value (it is below 2^31)
TargetFits == (WordBits - 1) \notin mls.target

\* the failure lines printed so far
FailureLines == SelectSeq(out, LAMBDA line : line[1] = "failure")

\* the word checkRam's inverted write pass means to leave in word i
Complement(i) == BitPositions \ {i % WordBits}

\* the words of the tested range that do not read back as that
Mismatches ==
    {i \in 0 .. (WordsIn(ram.memorySizeBytes) - 1) :
        Load(mem[ram.pMem], faults[ram.pMem], i) # Complement(i)}

Lowest(S) == CHOOSE i \in S : \A j \in S : i <= j

\* checkHeapSize has returned
HeapReturned == pc \in {"returned", "main_total", "main_wait", "main_echo"}

\* control is inside the chaining loop of checkHeapSize (159-172)
InChaining ==
    \/ pc \in {"chs_loop", "chs_later", "chs_next"}
    \/ pc \in {"mallocLargestSize", "mls_loop"} /\ mls.ret = "chs_later"
    \/ pc \in {"checkRam", "cr_write", "cr_read", "cr_invwrite", "cr_invread", "cr_report"}
       /\ ram.ret = "chs_next"

\* the frees of addresses that malloc granted in this run, in order
Released == SelectSeq(frees, LAMBDA e : e.ptr \in 1 .. Len(blocks))

\* ---- C1 ----

\* C1, first part: for a target T below 2^31, the k-th malloc call of a probe asks
\* for T - 4 (k - 1) bytes, a positive size, and a granted block is the last call's.
C1_TriesInOrder ==
    (pc \in {"mls_loop", "returned"} /\ TargetFits) =>
        /\ mls.nTries > 0 =>
              /\ mls.lastTried = Val(mls.target) - WordBytes * (mls.nTries - 1)
              /\ mls.lastTried > 0
        /\ mls.pMem # NULL => /\ blocks = <<mls.lastTried>>
                              /\ mls.nTries > 0
        /\ mls.pMem = NULL => blocks = << >>

\* C1, second part: for a target T below 2^31, on return a block comes with exactly
\* the size granted, which is positive, at most T and a multiple of 4 below T; the
\* result is null exactly when the size is 0, and then every positive size of
\* T, T-4, ... was tried (none at all for T = 0).
C1_Result ==
    (pc = "returned" /\ TargetFits) =>
        /\ mls.pMem # NULL =>
              /\ Val(mls.pSizeBytes) = blocks[mls.pMem]
              /\ Val(mls.pSizeBytes) > 0
              /\ Val(mls.pSizeBytes) <= Val(mls.target)
              /\ (Val(mls.target) - Val(mls.pSizeBytes)) % WordBytes = 0
        /\ (mls.pMem = NULL) <=> (mls.pSizeBytes = Zero)
        /\ mls.pMem = NULL =>
              mls.nTries = (Val(mls.target) + WordBytes - 1) \div WordBytes

\* C1 (as amended): mallocLargestSize with a target T below 2^31 tries malloc on
\* T, T-4, T-8, ... in that order while the size is positive, stops at the first
\* size granted and reports exactly that size; it returns null and 0 exactly when
\* every size of the sequence was refused (no call at all for T = 0).  With a
\* target of 2^31 or more it returns null and 0 without calling malloc.
C1_ProbeContract ==
    /\ C1_TriesInOrder
    /\ C1_Result
    /\ (pc = "returned" /\ ~TargetFits) =>
          /\ mls.pMem = NULL
          /\ mls.pSizeBytes = Zero
          /\ mls.nTries = 0

\* C1 witness: a probe returned a block after two or more refusals.
C1_Witness ==
    /\ pc = "returned"
    /\ TargetFits
    /\ mls.pMem # NULL
    /\ mls.nTries >= 3

\* C1 as claimed: for every target T, also one of 2^31 or more, the sequence of
\* tries starts with T itself whenever T > 0.
C1_AsClaimed ==
    /\ C1_TriesInOrder
    /\ C1_Result
    /\ (pc = "returned" /\ mls.target # Zero) => mls.nTries >= 1

\* ---- C2 ----

\* C2: the blocks are released in the reverse of the order they were allocated in,
\* the first block last, each exactly once: with the blocks at addresses 1 (the
\* first), 2, ..., n in allocation order, the frees of block addresses are
\* n, ..., 2, 1.
C2_ReverseTeardown ==
    /\ \A k \in 1 .. Len(Released) : Released[k].ptr = Len(blocks) + 1 - k
    /\ HeapReturned => Len(Released) = Len(blocks)

\* ---- C3 ----

\* C3: inside the chaining loop the cursor is never above
\* firstMallocSizeBytes / sizeof (void **), and where a block's address is about to
\* be written through it, it is strictly below.
C3_CursorBound ==
    InChaining =>
        /\ chs.ppLaterMalloc >= 0
        /\ chs.ppLaterMalloc <= Val(chs.firstMallocSizeBytes) \div WordBytes
        /\ pc = "chs_later" =>
              chs.ppLaterMalloc < Val(chs.firstMallocSizeBytes) \div WordBytes

\* C3 witness: the loop has filled every slot of a first block of two or more slots.
C3_Witness ==
    /\ pc = "chs_loop"
    /\ chs.ppLaterMalloc = Val(chs.firstMallocSizeBytes) \div WordBytes
    /\ chs.ppLaterMalloc >= 2

\* ---- C4 ----

\* C4, the result: 0 when the first probe fails, else the sizes of all the blocks
\* granted (the first and the chained ones); every chained probe starts from
\* SYSTEM_RAM_SIZE_BYTES.
C4_Result ==
    /\ (HeapReturned /\ chs.ret = pc) =>
          /\ chs.pFirstMalloc = NULL => chs.result = 0 /\ blocks = << >>
          /\ chs.pFirstMalloc # NULL => chs.result = SumSeq(blocks)
    /\ mls.ret = "chs_later" => mls.target = ToWord(SYSTEM_RAM_SIZE_BYTES)

\* the chaining loop has just ended
ChainingEnded == pc = "chs_teardown" /\ frees = << >>

\* the last chained probe returned null
LastProbeRefused == mls.ret = "chs_later" /\ mls.pMem = NULL

\* every slot of the first block is filled
AllSlotsFilled == chs.ppLaterMalloc = Val(chs.firstMallocSizeBytes) \div WordBytes

\* C4 (as amended): checkHeapSize returns 0 when the first probe fails, else the
\* sum of the sizes of the first and of all chained blocks; chaining stops only
\* when a probe yields null, when all slots of the first block are filled, or when
\* the slot about to be used reads as null because that word of the first block is
\* stuck at zero.
C4_ReturnsSum ==
    /\ C4_Result
    /\ ChainingEnded =>
          \/ LastProbeRefused
          \/ AllSlotsFilled
          \/ faults[chs.pFirstMalloc] = StuckZero(chs.ppLaterMalloc)

\* C4 witness: checkHeapSize returned the sum of a first block and two chained ones.
C4_Witness ==
    /\ HeapReturned
    /\ chs.ret = pc
    /\ Len(blocks) = 3
    /\ chs.result = blocks[1] + blocks[2] + blocks[3]

\* C4 as claimed: chaining stops only when a probe yields null or all slots of the
\* first block are filled.
C4_AsClaimed ==
    /\ C4_Result
    /\ ChainingEnded => (LastProbeRefused \/ AllSlotsFilled)

\* ---- C5 ----

\* C5: after checkRam on a fault-free range, word i holds the complement of
\* 1 << (i mod 32), the inverted read pass ran to the end of the range and no
\* failure line was printed.
C5_RoundTrip ==
    (pc = "returned" /\ ram.pMem # NULL /\ faults[ram.pMem] = NoFault) =>
        /\ \A i \in 0 .. (WordsIn(ram.memorySizeBytes) - 1) :
              mem[ram.pMem][i] = Complement(i)
        /\ ram.pLocation = WordsIn(ram.memorySizeBytes)
        /\ FailureLines = << >>

\* C5 witness: checkRam returned from a fault-free range long enough for the
\* walking bit to wrap around.
C5_Witness ==
    /\ pc = "returned"
    /\ ram.pMem # NULL
    /\ faults[ram.pMem] = NoFault
    /\ WordsIn(ram.memorySizeBytes) > WordBits

\* ---- C6 ----

\* the words of the range that are stuck at zero
StuckAtZero == {x.word : x \in {y \in faults[ram.pMem] : y.kind = "zero"}}

\* C6: when some word of the range does not read back as its complement pattern,
\* checkRam stops at the lowest such word, whatever the words after it hold, and
\* prints exactly one failure line, with that word's address and the contents it
\* reads as (zero for a word stuck at zero); no word after it is reported.
C6_FirstMismatchReported ==
    (pc = "returned" /\ ram.pMem # NULL /\ Mismatches # {}) =>
        /\ ram.pLocation = Lowest(Mismatches)
        /\ FailureLines =
              << <<"failure", ram.pMem + WordBytes * Lowest(Mismatches),
                   Load(mem[ram.pMem], faults[ram.pMem], Lowest(Mismatches))>> >>
        /\ \A i \in Mismatches \ {Lowest(Mismatches)} :
              \A k \in 1 .. Len(out) : out[k][2] # ram.pMem + WordBytes * i
        /\ Lowest(Mismatches) \in StuckAtZero =>
              /\ FailureLines[1][3] = Zero
              /\ Complement(Lowest(Mismatches)) # Zero
        /\ \A w \in StuckAtZero : w \in Mismatches

\* C6 witness: checkRam returned from a range with two words that do not read
\* back, those at byte offsets 8 and 20 stuck at zero, and words after both; the
\* one failure line is for offset 8.
C6_Witness ==
    /\ pc = "returned"
    /\ ram.pMem # NULL
    /\ faults[ram.pMem] = StuckZero(2) \cup StuckZero(5)
    /\ Mismatches = {2, 5}
    /\ WordsIn(ram.memorySizeBytes) > 6
    /\ Len(FailureLines) = 1
    /\ FailureLines[1][2] = ram.pMem + WordBytes * 2

\* ---- C7 ----

\* the memory holds what it held before the call: every word the same
MemoryUntouched ==
    \E before \in {Zero, AllOnes} :
        \A i \in DOMAIN mem[ram.pMem] : mem[ram.pMem][i] = before

\* C7 (as amended): checkRam with a null start writes no memory and prints nothing;
\* with a non-null start and size zero it writes no memory and prints no failure
\* line, but it does print the "Checking RAM" line.
C7_NullOrEmpty ==
    /\ ram.pMem = NULL => out = << >> /\ MemoryUntouched
    /\ (pc = "returned" /\ ram.pMem # NULL /\ ram.memorySizeBytes = 0) =>
          /\ out = << <<"checking", ram.pMem, ram.pMem>> >>
          /\ MemoryUntouched

\* C7 witness: checkRam returned from a call with a non-null start and size zero.
C7_Witness ==
    /\ pc = "returned"
    /\ ram.pMem # NULL
    /\ ram.memorySizeBytes = 0
    /\ Len(out) = 1

\* C7 as claimed: with a null start or with size zero, nothing is written and
\* nothing is printed.
C7_AsClaimed ==
    (ram.pMem = NULL \/ ram.memorySizeBytes = 0) => out = << >> /\ MemoryUntouched

\* ---- C8 ----

\* C8: with one bit of one word of the range stuck, checkRam prints a failure line.
C8_DetectsStuckBit ==
    (pc = "returned" /\ ram.pMem # NULL
        /\ \E w \in 0 .. (WordsIn(ram.memorySizeBytes) - 1), b \in FaultBits, s \in {0, 1} :
              faults[ram.pMem] = StuckBit(w, b, s)) =>
        FailureLines # << >>

\* ---- C9 ----

\* C9: nothing is fatal: the heap probe never ends in a fault, which would keep
\* checkHeapSize from returning and main from reaching the echo loop.
C9_NothingFatal == pc # "fault"

\* ---- C10 ----

\* C10: every pointer handed to free is null or the address of a live block, and
\* is read from inside the first block.
C10_FreesAreValid ==
    \A k \in 1 .. Len(frees) :
        /\ frees[k].ptr = NULL \/ frees[k].wasLive
        /\ frees[k].inBlock

====
